---- MODULE Spec2Model ----
(***************************************************************************)
(* Model of the name-disambiguation core of tobacco_networks:              *)
(*   src/name_disambiguation/person.py   (Person: construction, parsing,   *)
(*                                        equality, hashing)               *)
(*   src/backend/apps/main/models.py     (DjangoPerson store and           *)
(*                                        match_djangoperson_from_name)    *)
(*                                                                         *)
(* A Python str is a sequence of one-character strings, so that upper(),   *)
(* strip(), replace(), json.dumps() and the SQL substring test are         *)
(* computed character by character.  A Counter is the sequence of its      *)
(* <<key, weight>> items in insertion order (a Python dict keeps it).      *)
(***************************************************************************)
EXTENDS Naturals, Integers, Sequences, FiniteSets, TLC

VARIABLES
    store,      \* DjangoPerson table: sequence of rows in primary-key order
    pc,         \* per call of match_djangoperson_from_name: its position
    alias,      \* per call: the parsed_name argument (already upper-cased)
    found,      \* per call: outcome of objects.get() ("none","one","many")
    result,     \* per call: primary key of the row returned (0: none yet)
    err,        \* per call: exception that ended the call ("none": no error)
    seen,       \* per call: number of rows in the table when objects.get() ran
    people,     \* Person objects: slot -> record (or NoPerson)
    lastOp,     \* the last operation performed on people
    raw,        \* input string of a parse run
    parsed,     \* result of the parse run
    ppc,        \* position of the parse run
    tally,      \* positions Counter of a most_likely_position run
    likely,     \* result of the most_likely_position run
    mpc         \* position of the most_likely_position run

vars == <<store, pc, alias, found, result, err, seen, people, lastOp, raw, parsed, ppc,
          tally, likely, mpc>>

resolverVars == <<store, pc, alias, found, result, err, seen>>
personVars == <<people, lastOp>>
parseVars == <<raw, parsed, ppc>>
positionVars == <<tally, likely, mpc>>

(***************************************************************************)
(* Python str operations                                                   *)
(***************************************************************************)
UpperLetters == <<"A","B","C","D","E","F","G","H","I","J","K","L","M",
                  "N","O","P","Q","R","S","T","U","V","W","X","Y","Z">>
LowerLetters == <<"a","b","c","d","e","f","g","h","i","j","k","l","m",
                  "n","o","p","q","r","s","t","u","v","w","x","y","z">>
DigitChars == <<"0","1","2","3","4","5","6","7","8","9">>

Range(f) == {f[i] : i \in DOMAIN f}

IsUpper(c) == c \in Range(UpperLetters)
IsLower(c) == c \in Range(LowerLetters)
IsAlpha(c) == IsUpper(c) \/ IsLower(c)
\* \w of the re module
IsWordChar(c) == IsAlpha(c) \/ c \in Range(DigitChars) \/ c = "_"

IndexIn(c, letters) == CHOOSE i \in DOMAIN letters : letters[i] = c

UpperChar(c) == IF IsLower(c) THEN UpperLetters[IndexIn(c, LowerLetters)] ELSE c
LowerChar(c) == IF IsUpper(c) THEN LowerLetters[IndexIn(c, UpperLetters)] ELSE c

\* str.upper(), str.lower(), str.capitalize()
Upper(s) == [i \in DOMAIN s |-> UpperChar(s[i])]
Lower(s) == [i \in DOMAIN s |-> LowerChar(s[i])]
Capitalize(s) == [i \in DOMAIN s |-> IF i = 1 THEN UpperChar(s[i]) ELSE LowerChar(s[i])]

\* s[a:] and s[:b] with 1-based positions: From(s, i) keeps s[i..], Upto(s, i) keeps s[1..i]
From(s, i) == SubSeq(s, i, Len(s))
Upto(s, i) == SubSeq(s, 1, i)

\* sub occurs in s starting at (1-based) position i
OccursAt(s, sub, i) ==
    /\ i >= 1
    /\ i + Len(sub) - 1 <= Len(s)
    /\ SubSeq(s, i, i + Len(sub) - 1) = sub

\* the positions at which sub occurs in s
Occurrences(s, sub) == {i \in 1..(Len(s) + 1) : OccursAt(s, sub, i)}

Min(S) == CHOOSE x \in S : \A y \in S : x <= y
Max(S) == CHOOSE x \in S : \A y \in S : x >= y

\* str.find(sub) + 1: the 1-based position of the first occurrence, 0 when absent
Find(s, sub) == IF Occurrences(s, sub) = {} THEN 0 ELSE Min(Occurrences(s, sub))

\* sub in s
Contains(s, sub) == Occurrences(s, sub) # {}

StartsWith(s, prefix) == OccursAt(s, prefix, 1)

\* str.replace(old, new) for a non-empty old: every non-overlapping occurrence, left to right
RECURSIVE Replace(_, _, _)
Replace(s, old, new) ==
    IF Len(old) = 0 \/ Find(s, old) = 0 THEN s
    ELSE LET i == Find(s, old)
         IN Upto(s, i - 1) \o new \o Replace(From(s, i + Len(old)), old, new)

\* str.count(sub) for a one-character sub
CountChar(s, c) == Cardinality({i \in DOMAIN s : s[i] = c})

\* str.strip(chars), chars a set of characters
RECURSIVE LStrip(_, _)
LStrip(s, chars) ==
    IF Len(s) > 0 /\ s[1] \in chars THEN LStrip(Tail(s), chars) ELSE s
RECURSIVE RStrip(_, _)
RStrip(s, chars) ==
    IF Len(s) > 0 /\ s[Len(s)] \in chars THEN RStrip(Upto(s, Len(s) - 1), chars) ELSE s
Strip(s, chars) == LStrip(RStrip(s, chars), chars)

\* str.split(sep) for a non-empty sep: the list of the parts
RECURSIVE Split(_, _)
Split(s, sep) ==
    IF Find(s, sep) = 0 THEN <<s>>
    ELSE LET i == Find(s, sep)
         IN <<Upto(s, i - 1)>> \o Split(From(s, i + Len(sep)), sep)

\* " ".join(parts), ", ".join(parts)
RECURSIVE Join(_, _)
Join(parts, sep) ==
    IF Len(parts) = 0 THEN <<>>
    ELSE IF Len(parts) = 1 THEN parts[1]
    ELSE parts[1] \o sep \o Join(Tail(parts), sep)

\* str(n) of a natural number
RECURSIVE DecStr(_)
DecStr(n) == IF n < 10 THEN <<DigitChars[n + 1]>>
             ELSE DecStr(n \div 10) \o <<DigitChars[(n % 10) + 1]>>

\* every string over chars of length at most n
RECURSIVE StringsUpTo(_, _)
StringsUpTo(chars, n) ==
    IF n = 0 THEN {<<>>}
    ELSE LET shorter == StringsUpTo(chars, n - 1)
         IN shorter \cup {Append(s, c) : s \in shorter, c \in chars}

(***************************************************************************)
(* collections.Counter: the sequence of <<key, weight>> items in insertion *)
(* order, keys distinct.                                                   *)
(***************************************************************************)
EmptyCounter == <<>>

CounterKeys(c) == {c[i][1] : i \in DOMAIN c}

\* c[k]: the weight, 0 for a missing key (Counter.__missing__)
CounterGet(c, k) ==
    IF k \in CounterKeys(c) THEN c[CHOOSE i \in DOMAIN c : c[i][1] = k][2] ELSE 0

\* the mutant of CounterAddKey: the weight is stored, not added
CounterSetKey(c, k, w) ==
    IF k \in CounterKeys(c)
    THEN [i \in DOMAIN c |-> IF c[i][1] = k THEN <<k, w>> ELSE c[i]]
    ELSE Append(c, <<k, w>>)

\* c[k] += w: an existing key keeps its place, a new key goes last
CounterAddKey(c, k, w) ==
    IF k \in CounterKeys(c)
    THEN [i \in DOMAIN c |-> IF c[i][1] = k THEN <<k, c[i][2] + w>> ELSE c[i]]
    ELSE Append(c, <<k, w>>)

\* for k, w in other.items(): c[k] += w
RECURSIVE CounterAddAll(_, _)
CounterAddAll(c, other) ==
    IF Len(other) = 0 THEN c
    ELSE CounterAddAll(CounterAddKey(c, other[1][1], other[1][2]), Tail(other))

\* Counter._keep_positive()
KeepPositive(c) == SelectSeq(c, LAMBDA item : item[2] > 0)

\* c += other (Counter.__iadd__)
CounterIAdd(c, other) == KeepPositive(CounterAddAll(c, other))

\* the contents of the multiset: key -> weight for the keys of non-zero weight
CounterContents(c) == {c[i] : i \in {j \in DOMAIN c : c[j][2] # 0}}

\* Counter == Counter (dict comparison; a missing key counts as zero)
CounterEq(c, d) == CounterContents(c) = CounterContents(d)

\* insert item into a list sorted by descending weight, after its equals (stable)
RECURSIVE InsertByWeight(_, _)
InsertByWeight(sorted, item) ==
    IF Len(sorted) = 0 THEN <<item>>
    ELSE IF sorted[1][2] >= item[2]
         THEN <<sorted[1]>> \o InsertByWeight(Tail(sorted), item)
         ELSE <<item>> \o sorted

\* Counter.most_common(): sorted(items, key=weight, reverse=True), a stable sort
RECURSIVE MostCommon(_)
MostCommon(c) ==
    IF Len(c) = 0 THEN <<>>
    ELSE InsertByWeight(MostCommon(Upto(c, Len(c) - 1)), c[Len(c)])

\* repr(str): single quotes, unless the string holds ' and no "
RECURSIVE EscapeRepr(_, _)
EscapeRepr(s, q) ==
    IF Len(s) = 0 THEN <<>>
    ELSE (IF s[1] = "\\" THEN <<"\\", "\\">>
          ELSE IF s[1] = q THEN <<"\\", q>>
          ELSE <<s[1]>>) \o EscapeRepr(Tail(s), q)
StrRepr(s) ==
    LET q == IF "'" \in Range(s) /\ ~("\"" \in Range(s)) THEN "\"" ELSE "'"
    IN <<q>> \o EscapeRepr(s, q) \o <<q>>

RECURSIVE ItemsRepr(_)
ItemsRepr(items) ==
    IF Len(items) = 0 THEN <<>>
    ELSE StrRepr(items[1][1]) \o <<":", " ">> \o DecStr(items[1][2])
         \o (IF Len(items) > 1 THEN <<",", " ">> ELSE <<>>) \o ItemsRepr(Tail(items))

\* str(Counter): 'Counter()' or 'Counter({k: w, ...})' in most_common() order
CounterStr(c) ==
    IF Len(c) = 0 THEN <<"C","o","u","n","t","e","r","(",")">>
    ELSE <<"C","o","u","n","t","e","r","(","{">> \o ItemsRepr(MostCommon(c)) \o <<"}",")">>

(***************************************************************************)
(* nameparser.HumanName, the generic "Last, First Middle, Suffix" splitter *)
(* (an external library, used at person.py:348 and :443).  The title list  *)
(* is emptied at person.py:15, so no piece is a title.  The model covers   *)
(* names without prefixes ("van"), conjunctions ("and") and quoted         *)
(* nicknames, and the generational suffix words.                           *)
(***************************************************************************)
SuffixWords == {<<"j","r">>, <<"s","r">>, <<"i","i">>, <<"i","i","i">>, <<"i","v">>}

\* regexes.spaces.sub(" ", s.strip()), then one trailing comma dropped
RECURSIVE SquashSpaces(_)
SquashSpaces(s) ==
    IF Contains(s, <<" ", " ">>) THEN SquashSpaces(Replace(s, <<" ", " ">>, <<" ">>)) ELSE s
CollapseWhitespace(s) ==
    LET t == SquashSpaces(Strip(s, {" "}))
    IN IF Len(t) > 0 /\ t[Len(t)] = "," THEN Upto(t, Len(t) - 1) ELSE t

\* is_an_initial: a single capital, or one word character and a period
IsAnInitial(piece) ==
    \/ Len(piece) = 1 /\ IsUpper(piece[1])
    \/ Len(piece) = 2 /\ IsWordChar(piece[1]) /\ piece[2] = "."

\* is_suffix: lc(piece) is a suffix word and piece is no initial
IsSuffix(piece) == Strip(Lower(piece), {"."}) \in SuffixWords /\ ~IsAnInitial(piece)
AreSuffixes(pieces) == \A i \in DOMAIN pieces : IsSuffix(pieces[i])

\* parse_pieces: the part split at spaces, each piece stripped of spaces and commas
Pieces(part) ==
    LET split == Split(part, <<" ">>)
    IN [i \in DOMAIN split |-> Strip(split[i], {" ", ","})]

NoName == [first |-> <<>>, middle |-> <<>>, last |-> <<>>, suffix |-> <<>>]

\* "first middle ... last [suffix]": the loop over the pieces, from piece i
RECURSIVE FirstToLast(_, _, _)
FirstToLast(pieces, i, acc) ==
    IF i > Len(pieces) THEN acc
    ELSE LET piece == pieces[i]
             rest == From(pieces, i + 1)
         IN IF Join(acc.first, <<" ">>) = <<>>
            THEN FirstToLast(pieces, i + 1, [acc EXCEPT !.first = Append(@, piece)])
            ELSE IF AreSuffixes(rest)
            THEN [acc EXCEPT !.last = Append(@, piece), !.suffix = rest \o @]
            ELSE FirstToLast(pieces, i + 1, [acc EXCEPT !.middle = Append(@, piece)])

\* the pieces of the part before the first comma: last names, then suffixes
RECURSIVE LastNamePieces(_, _, _)
LastNamePieces(pieces, i, acc) ==
    IF i > Len(pieces) THEN acc
    ELSE IF IsSuffix(pieces[i]) /\ Len(acc.last) > 0
         THEN LastNamePieces(pieces, i + 1, [acc EXCEPT !.suffix = Append(@, pieces[i])])
         ELSE LastNamePieces(pieces, i + 1, [acc EXCEPT !.last = Append(@, pieces[i])])

\* the pieces of the part after the first comma: first, then middles and suffixes
RECURSIVE FirstNamePieces(_, _, _)
FirstNamePieces(pieces, i, acc) ==
    IF i > Len(pieces) THEN acc
    ELSE IF Join(acc.first, <<" ">>) = <<>>
         THEN FirstNamePieces(pieces, i + 1, [acc EXCEPT !.first = Append(@, pieces[i])])
         ELSE IF IsSuffix(pieces[i])
         THEN FirstNamePieces(pieces, i + 1, [acc EXCEPT !.suffix = Append(@, pieces[i])])
         ELSE FirstNamePieces(pieces, i + 1, [acc EXCEPT !.middle = Append(@, pieces[i])])

NameLists(full) ==
    LET commaParts == Split(full, <<",">>)
        parts == [i \in DOMAIN commaParts |-> Strip(commaParts[i], {" "})]
    IN IF Len(parts) = 1
       THEN FirstToLast(Pieces(parts[1]), 1, NoName)
       ELSE IF AreSuffixes(Split(parts[2], <<" ">>)) /\ Len(Split(parts[1], <<" ">>)) > 1
       THEN FirstToLast(Pieces(parts[1]), 1, [NoName EXCEPT !.suffix = From(parts, 2)])
       ELSE LET a == LastNamePieces(Pieces(parts[1]), 1, NoName)
                b == FirstNamePieces(Pieces(parts[2]), 1, a)
            IN IF Len(parts) >= 3 /\ Len(parts[3]) > 0
               THEN [b EXCEPT !.suffix = @ \o From(parts, 3)]
               ELSE b

\* HumanName(s): the first, middle, last and suffix attributes
HumanName(s) ==
    LET lists == NameLists(CollapseWhitespace(s))
    IN [first |-> Join(lists.first, <<" ">>),
        middle |-> Join(lists.middle, <<" ">>),
        last |-> Join(lists.last, <<" ">>),
        suffix |-> Join(lists.suffix, <<",", " ">>)]

(***************************************************************************)
(* RAW_ORG_TO_CLEAN_ORG_DICT (name_disambiguation/clean_org_names.py): the *)
(* raw spelling -> canonical name pairs in the dict's order; "@skip@" is   *)
(* the skip sentinel.  The entries are those that person.py's tests use,   *)
(* in an order under which those tests pass ('UNK' is searched before      *)
(* 'PM'), and a two-letter spelling mapped to the sentinel.                *)
(***************************************************************************)
SKIP == <<"@","s","k","i","p","@">>

RAW_ORG_TO_CLEAN_ORG_DICT ==
    << <<<<"U","N","K">>, SKIP>>,
       <<<<"N","A">>, SKIP>>,
       <<<<"C","O","V","I","N","G","T","O","N"," ","A","N","D"," ","B","U","R","L","I","N","G">>, <<"C","o","v","i","n","g","t","o","n"," ","&"," ","B","u","r","l","i","n","g">>>>,
       <<<<"P","M">>, <<"P","h","i","l","i","p"," ","M","o","r","r","i","s">>>>,
       <<<<"B","W">>, <<"B","r","o","w","n"," ","&"," ","W","i","l","l","i","a","m","s","o","n">>>> >>

InOrgDict(key) == \E i \in DOMAIN RAW_ORG_TO_CLEAN_ORG_DICT : RAW_ORG_TO_CLEAN_ORG_DICT[i][1] = key
OrgDictGet(key) ==
    RAW_ORG_TO_CLEAN_ORG_DICT[CHOOSE i \in DOMAIN RAW_ORG_TO_CLEAN_ORG_DICT :
                                  RAW_ORG_TO_CLEAN_ORG_DICT[i][1] = key][2]

(***************************************************************************)
(* Person.parse_raw_name and its helpers                                   *)
(***************************************************************************)
PrivlogTag == <<"[","P","r","i","v","l","o","g",":","]">>

\* Person.remove_privlog_info
remove_privlog_info(name_raw) ==
    LET privlog_id == Find(name_raw, PrivlogTag)
    IN IF privlog_id = 1 THEN From(name_raw, privlog_id)
       ELSE IF privlog_id > 1 THEN Upto(name_raw, privlog_id - 1)
       ELSE name_raw

\* the end of the run of lower-case letters that starts at position i (i - 1: no letter)
RECURSIVE LowerRunEnd(_, _)
LowerRunEnd(s, i) ==
    IF i <= Len(s) /\ IsLower(s[i]) THEN LowerRunEnd(s, i + 1) ELSE i - 1

JrGroups == <<<<"-","J","r">>, <<"-","S","r">>, <<"-","I","I","I">>>>

\* the first alternative of (-Jr|-Sr|-III) that occurs at position i, <<>> when none does
JrGroupAt(s, i) ==
    IF \E g \in DOMAIN JrGroups : OccursAt(s, JrGroups[g], i)
    THEN JrGroups[Min({g \in DOMAIN JrGroups : OccursAt(s, JrGroups[g], i)})]
    ELSE <<>>

\* group(1) of re.search(r'^[A-Z][a-z]+-[A-Z]{1,2}(-Jr|-Sr|-III)', s), <<>> when no match
JrMatchGroup(s) ==
    IF Len(s) >= 1 /\ IsUpper(s[1]) /\ LowerRunEnd(s, 2) >= 2
    THEN LET d == LowerRunEnd(s, 2) + 1      \* where the dash must be
         IN IF d + 1 <= Len(s) /\ s[d] = "-" /\ IsUpper(s[d + 1])
            THEN IF d + 2 <= Len(s) /\ IsUpper(s[d + 2]) /\ JrGroupAt(s, d + 3) # <<>>
                 THEN JrGroupAt(s, d + 3)
                 ELSE JrGroupAt(s, d + 2)
            ELSE <<>>
    ELSE <<>>

\* Person.remove_jr_sr_iii
remove_jr_sr_iii(name_raw) ==
    IF JrMatchGroup(name_raw) # <<>>
    THEN Replace(name_raw, JrMatchGroup(name_raw), <<>>)
    ELSE name_raw

\* re.findall(r'\([^(]+\)', s) from position p on: "(" , one or more characters
\* other than "(", and the last ")" that this run allows
RECURSIVE ParenMatches(_, _)
ParenMatches(s, p) ==
    LET opens == {i \in p..Len(s) : s[i] = "("}
    IN IF opens = {} THEN <<>>
       ELSE LET i == Min(opens)
                later == {j \in (i + 1)..Len(s) : s[j] = "("}
                stop == IF later = {} THEN Len(s) + 1 ELSE Min(later)
                closes == {e \in (i + 2)..(stop - 1) : s[e] = ")"}
            IN IF closes = {} THEN ParenMatches(s, i + 1)
               ELSE <<SubSeq(s, i, Max(closes))>> \o ParenMatches(s, Max(closes) + 1)

\* for position in paren_positions: record it stripped, remove it from the name
RECURSIVE RemoveParens(_, _, _)
RemoveParens(name_raw, matches, extracted) ==
    IF Len(matches) = 0 THEN [name |-> name_raw, positions |-> extracted]
    ELSE RemoveParens(Replace(name_raw, matches[1], <<>>), Tail(matches),
                      Append(extracted, Strip(matches[1], {",", "#", "(", ")", " "})))

\* parse_raw_name up to the organisation search (person.py:313-329)
ParsePre(name_raw) ==
    LET a == remove_jr_sr_iii(remove_privlog_info(name_raw))
        parts == Split(a, <<" ","-"," ">>)
        dashed == Find(a, <<" ","-"," ">>) > 0 /\ Len(parts) = 2
        b == IF dashed THEN parts[1] ELSE a
        extracted == IF dashed THEN <<Strip(parts[2], {" "})>> ELSE <<>>
    IN RemoveParens(b, ParenMatches(b, 1), extracted)

ParseError(kind) ==
    [err |-> kind, first |-> <<>>, middle |-> <<>>, last |-> <<>>, positions |-> EmptyCounter]

\* 'DUNN-W' -> 'DUNN W', then 'DUNN-WL' -> 'DUNN WL' (person.py:341-345); len(s) >= 2
DashInitials(s) ==
    LET n == Len(s)
        a == IF s[n - 1] = "-" THEN Upto(s, n - 2) \o <<" ">> \o From(s, n) ELSE s
    IN IF Len(a) > 2 /\ a[Len(a) - 2] = "-"
       THEN Upto(a, Len(a) - 3) \o <<" ">> \o From(a, Len(a) - 1)
       ELSE a

\* the corrections of the HumanName split (person.py:350-380), one operator each
\* if len(name.last) <= 2 and len(name.first) > 2: swap first and last
SwapShortLast(name) ==
    IF Len(name.last) <= 2 /\ 2 < Len(name.first)
    THEN [name EXCEPT !.first = name.last, !.last = name.first]
    ELSE name

\* 'R.' -> 'R' for the first name
FirstInitial(name) ==
    IF Len(name.first) = 2 /\ name.first[2] = "."
    THEN [name EXCEPT !.first = <<name.first[1]>>] ELSE name

\* 'H.' -> 'H' for the middle name
MiddleInitial(name) ==
    IF Len(name.middle) = 2 /\ name.middle[2] = "."
    THEN [name EXCEPT !.middle = <<name.middle[1]>>] ELSE name

\* no middle name and a two-character first name: 'HS' -> 'H', 'S'
SplitInitials(name) ==
    IF Len(name.middle) = 0 /\ Len(name.first) = 2
    THEN [name EXCEPT !.middle = <<UpperChar(name.first[2])>>,
                      !.first = <<UpperChar(name.first[1])>>]
    ELSE name

\* re.match(r'[a-zA-Z]\.[a-zA-Z]\.', first): 'H.S.' -> 'H', 'S'
DottedInitials(name) ==
    IF /\ Len(name.first) >= 4
       /\ IsAlpha(name.first[1]) /\ name.first[2] = "."
       /\ IsAlpha(name.first[3]) /\ name.first[4] = "."
    THEN [name EXCEPT !.middle = <<name.first[3]>>, !.first = <<name.first[1]>>]
    ELSE name

\* name.last, name.first, name.middle = ....capitalize()
CapitalizeName(name) ==
    [name EXCEPT !.last = Capitalize(@), !.first = Capitalize(@), !.middle = Capitalize(@)]

\* a middle name with more than one comma is dropped
DropCommaMiddle(name) ==
    IF CountChar(name.middle, ",") > 1 THEN [name EXCEPT !.middle = <<>>] ELSE name

\* a suffix longer than 20 characters with more than two periods is dropped
DropLongSuffix(name) ==
    IF Len(name.suffix) > 20 /\ CountChar(name.suffix, ".") > 2
    THEN [name EXCEPT !.suffix = <<>>]
    ELSE name

CorrectName(name) ==
    DropLongSuffix(DropCommaMiddle(CapitalizeName(DottedInitials(SplitInitials(
        MiddleInitial(FirstInitial(SwapShortLast(name))))))))

\* the extracted positions mapped through the table (person.py:387-395)
RECURSIVE CleanOrgs(_)
CleanOrgs(extracted) ==
    IF Len(extracted) = 0 THEN <<>>
    ELSE (IF InOrgDict(extracted[1])
          THEN IF OrgDictGet(extracted[1]) # SKIP THEN <<OrgDictGet(extracted[1])>> ELSE <<>>
          ELSE <<extracted[1]>>) \o CleanOrgs(Tail(extracted))

\* re.sub(r'\.', '', position).upper()
CleanPosition(position) == Upper(SelectSeq(position, LAMBDA c : c # "."))

\* for position in positions: counter[cleaned.upper()] += count
RECURSIVE CountPositions(_, _, _)
CountPositions(counter, positions, count) ==
    IF Len(positions) = 0 THEN counter
    ELSE CountPositions(CounterAddKey(counter, CleanPosition(positions[1]), count),
                        Tail(positions), count)

\* the return value of parse_raw_name: the name parts and the counted positions
\* (person.py:382-404)
ParseResult(name, extracted, count) ==
    [err |-> "none", first |-> name.first, middle |-> name.middle, last |-> name.last,
     positions |-> CountPositions(EmptyCounter,
                                  CleanOrgs(IF name.suffix # <<>>
                                            THEN Append(extracted, name.suffix)
                                            ELSE extracted),
                                  count)]

\* person.py:341-348 on the stripped string; name_raw[-2] needs two characters
ParseStripped(stripped, extracted, count) ==
    IF Len(stripped) < 2 THEN ParseError("IndexError")
    ELSE ParseResult(CorrectName(HumanName(DashInitials(stripped))), extracted, count)

\* parse_raw_name from the strip of '#' on (person.py:337-404)
ParsePost(name_in, extracted, count) == ParseStripped(Strip(name_in, {" ", "#"}), extracted, count)

ParsePostOf(pre, count) == ParsePost(pre.name, pre.positions, count)

\* parse_raw_name(name_raw, count, extract_orgs=False)
ParseNoOrgs(name_raw, count) == ParsePostOf(ParsePre(name_raw), count)

\* re.match('^[a-zA-Z]+$', s)
AllLetters(s) == Len(s) > 0 /\ \A i \in DOMAIN s : IsAlpha(s[i])

\* Person(last=, middle=, first=).check_if_this_person_looks_valid()
check_if_this_person_looks_valid(last, first, middle) ==
    ~ ( \/ ~AllLetters(Upper(last))
        \/ ~AllLetters(Upper(first))
        \/ (Len(middle) > 0 /\ ~AllLetters(Upper(middle))) )

(***************************************************************************)
(* Person.extract_raw_org_names_from_name                                  *)
(***************************************************************************)
IsWordAt(s, i) == i >= 1 /\ i <= Len(s) /\ IsWordChar(s[i])

\* \b between positions i - 1 and i
WordBoundary(s, i) == IsWordAt(s, i - 1) # IsWordAt(s, i)

\* r'\b' + raw_org + r'\b' matches at position i
OrgMatchAt(s, raw_org, i) ==
    /\ OccursAt(s, raw_org, i)
    /\ WordBoundary(s, i)
    /\ WordBoundary(s, i + Len(raw_org))

\* the start of the last match that re.finditer yields (0: no match): the matches
\* are taken left to right, each search resuming where the last match ended
RECURSIVE LastHit(_, _, _, _)
LastHit(s, raw_org, p, last) ==
    LET hits == {i \in p..Len(s) : OrgMatchAt(s, raw_org, i)}
    IN IF hits = {} THEN last
       ELSE LastHit(s, raw_org, Min(hits) + Len(raw_org), Min(hits))

\* the mutant of KeepsTwoLetterMatch: the test for a last name is left out
KeepsIfNoFirstMiddle(name) == name.first = <<>> /\ name.middle = <<>>

\* the two-letter branch keeps the match when the rest no longer parses to a
\* last name with a first or middle name (person.py:443-449)
KeepsTwoLetterMatch(name) == (name.first = <<>> /\ name.middle = <<>>) \/ name.last = <<>>

\* name_raw with the match at position hit cut out (person.py:439, 453)
CutOut(name_raw, raw_org, hit) == Upto(name_raw, hit - 1) \o From(name_raw, hit + Len(raw_org))

\* the while loop for one (raw_org, clean_org) pair (person.py:422-456), hit being
\* the start of the last match in name_raw (0: no match)
RECURSIVE ExtractOrgAt(_, _, _, _, _)
ExtractOrgAt(name_raw, extracted, raw_org, clean_org, hit) ==
    IF hit = 0 THEN [err |-> "none", name |-> name_raw, positions |-> extracted]
    ELSE IF Len(raw_org) >= 3
    THEN ExtractOrgAt(CutOut(name_raw, raw_org, hit),
                      IF clean_org # SKIP THEN Append(extracted, clean_org) ELSE extracted,
                      raw_org, clean_org,
                      LastHit(CutOut(name_raw, raw_org, hit), raw_org, 1, 0))
    ELSE IF Len(raw_org) = 2
    THEN IF KeepsTwoLetterMatch(HumanName(CutOut(name_raw, raw_org, hit)))
         THEN [err |-> "none", name |-> name_raw, positions |-> extracted]
         ELSE ExtractOrgAt(CutOut(name_raw, raw_org, hit), Append(extracted, clean_org),
                           raw_org, clean_org,
                           LastHit(CutOut(name_raw, raw_org, hit), raw_org, 1, 0))
    \* neither branch: the loop searches the unchanged string again, for ever
    ELSE [err |-> "NoTermination", name |-> name_raw, positions |-> extracted]

ExtractOrg(name_raw, extracted, raw_org, clean_org) ==
    ExtractOrgAt(name_raw, extracted, raw_org, clean_org, LastHit(name_raw, raw_org, 1, 0))

\* the for loop over the table, from entry i (person.py:420)
RECURSIVE ExtractTable(_, _, _)
RECURSIVE ExtractTableNext(_, _)
ExtractTableNext(one, i) ==
    IF one.err # "none" THEN one ELSE ExtractTable(one.name, one.positions, i)
ExtractTable(name_raw, extracted, i) ==
    IF i > Len(RAW_ORG_TO_CLEAN_ORG_DICT)
    THEN [err |-> "none", name |-> name_raw, positions |-> extracted]
    ELSE ExtractTableNext(ExtractOrg(name_raw, extracted, RAW_ORG_TO_CLEAN_ORG_DICT[i][1],
                                     RAW_ORG_TO_CLEAN_ORG_DICT[i][2]),
                          i + 1)

\* the start of re.search(',.+$', s): the first comma with a character after it (0: none)
CommaTail(s) ==
    LET commas == {i \in 1..(Len(s) - 1) : s[i] = ","}
    IN IF commas = {} THEN 0 ELSE Min(commas)

\* Person(last=, first=, middle=).check_if_this_person_looks_valid() of a parse
LooksValid(p) == check_if_this_person_looks_valid(p.last, p.first, p.middle)

\* the second attempt: the name without the text after the comma (person.py:473-483)
SpeculativeCut(name_raw, extracted, hit, p2) ==
    IF p2.err # "none" THEN [err |-> p2.err, name |-> name_raw, positions |-> extracted]
    ELSE IF LooksValid(p2)
    THEN [err |-> "none", name |-> Upto(name_raw, hit - 1),
          positions |-> Append(extracted, Strip(From(name_raw, hit), {",", " "}))]
    ELSE [err |-> "none", name |-> name_raw, positions |-> extracted]

\* the first attempt: the name as it is (person.py:466-471)
SpeculativeTry(name_raw, extracted, p1, hit) ==
    IF p1.err # "none" THEN [err |-> p1.err, name |-> name_raw, positions |-> extracted]
    ELSE IF LooksValid(p1) \/ hit = 0
    THEN [err |-> "none", name |-> name_raw, positions |-> extracted]
    ELSE SpeculativeCut(name_raw, extracted, hit, ParseNoOrgs(Upto(name_raw, hit - 1), 0))

\* the extraction of an organisation the table does not have (person.py:466-483)
Speculative(name_raw, extracted) ==
    IF Len(name_raw) = 0 THEN [err |-> "none", name |-> name_raw, positions |-> extracted]
    ELSE SpeculativeTry(name_raw, extracted, ParseNoOrgs(name_raw, 0), CommaTail(name_raw))

\* return name_raw.strip(', '), extracted_positions
StripName(r) == [r EXCEPT !.name = Strip(@, {",", " "})]

AfterTable(table) ==
    IF table.err # "none" THEN table
    ELSE StripName(Speculative(Strip(table.name, {",", " "}), table.positions))

extract_raw_org_names_from_name(name_raw) == AfterTable(ExtractTable(name_raw, <<>>, 1))

\* person.py:331-335: the positions found by the organisation search are added
ParseWithOrgs(orgs, extracted, count) ==
    IF orgs.err # "none" THEN ParseError(orgs.err)
    ELSE ParsePost(orgs.name, extracted \o orgs.positions, count)

ParseFrom(pre, count, extract_orgs) ==
    IF ~extract_orgs THEN ParsePostOf(pre, count)
    ELSE ParseWithOrgs(extract_raw_org_names_from_name(pre.name), pre.positions, count)

\* Person.parse_raw_name(name_raw, count, extract_orgs)
parse_raw_name(name_raw, count, extract_orgs) == ParseFrom(ParsePre(name_raw), count, extract_orgs)

(***************************************************************************)
(* Person (person.py:18-160)                                               *)
(*                                                                         *)
(* An optional str argument is [some, v] (some = FALSE: None).  A          *)
(* positions / aliases argument is [kind, items, list]: kind "none" is     *)
(* None, "counter" a Counter (items), "list" a list of str and "set" a set *)
(* of str in the order in which the loop iterates over it (list).          *)
(***************************************************************************)
None == [some |-> FALSE, v |-> <<>>]
Some(s) == [some |-> TRUE, v |-> s]

NoArg == [kind |-> "none", items |-> <<>>, list |-> <<>>]
CounterArg(c) == [kind |-> "counter", items |-> c, list |-> <<>>]
ListArg(l) == [kind |-> "list", items |-> <<>>, list |-> l]
SetArg(l) == [kind |-> "set", items |-> <<>>, list |-> l]

\* for i in positions: self.positions[re.sub(r'\.', '', i).upper()] += count
PositionsFromList(list, count) == CountPositions(EmptyCounter, list, count)

\* for i in aliases: self.aliases[i.upper()] += count
RECURSIVE AliasesFromList(_, _, _)
AliasesFromList(counter, list, count) ==
    IF Len(list) = 0 THEN counter
    ELSE AliasesFromList(CounterAddKey(counter, Upper(list[1]), count), Tail(list), count)

\* the mutant of DefaultAliases: the raw name is not kept as an alias
DefaultAliasesNone(name_raw, count) == EmptyCounter

\* aliases when none are given: the upper-cased raw name (person.py:69-73)
DefaultAliases(name_raw, count) ==
    IF ~name_raw.some THEN EmptyCounter ELSE <<<<Upper(name_raw.v), count>>>>

\* self.positions when __init__ returns (person.py:47-64, 83-90).  A Counter
\* argument (or the Counter() that stands in for None) is the object that
\* "self.positions += pos_raw" updated in place; any other container is read again,
\* into a new Counter, after the parsed positions were added
FinalPositions(positions, pos_raw, count) ==
    IF positions.kind \in {"none", "counter"}
    THEN IF Len(pos_raw) > 0 THEN CounterIAdd(positions.items, pos_raw) ELSE positions.items
    ELSE PositionsFromList(positions.list, count)

\* the caller's positions object when __init__ has returned.  A Counter argument
\* is the object that self.positions names (person.py:50-51), and
\* "self.positions += pos_raw" (person.py:63-64) adds to that object in place; a
\* container of any other kind is only read (person.py:55-57, 88-90)
PositionsArgAfter(positions, pos_raw) ==
    IF positions.kind = "counter" /\ Len(pos_raw) > 0
    THEN [positions EXCEPT !.items = CounterIAdd(positions.items, pos_raw)]
    ELSE positions

NoPerson ==
    [exists |-> FALSE, last |-> <<>>, first |-> <<>>, middle |-> <<>>,
     positions |-> EmptyCounter, aliases |-> EmptyCounter, count |-> 0]

\* self.aliases when __init__ returns (person.py:69-81)
FinalAliases(name_raw, aliases, count) ==
    IF aliases.kind = "none" THEN DefaultAliases(name_raw, count)
    ELSE IF aliases.kind = "counter" THEN aliases.items
    ELSE AliasesFromList(EmptyCounter, aliases.list, count)

\* the object that __init__ leaves behind (person.py:58-92)
PersonFields(last, first, middle, positions, aliases, count) ==
    [err |-> "none",
     person |-> [exists |-> TRUE, last |-> Upper(last), first |-> Upper(first),
                 middle |-> Upper(middle), positions |-> positions, aliases |-> aliases,
                 count |-> count]]

\* __init__ after "first, middle, last, pos_raw = self.parse_raw_name(...)": an
\* exception of the parse leaves no object
PersonParsed(p, positions, aliases, count) ==
    IF p.err # "none" THEN [err |-> p.err, person |-> NoPerson]
    ELSE PersonFields(p.last, p.first, p.middle, FinalPositions(positions, p.positions, count),
                      aliases, count)

\* Person.__init__: [err, person]; err is the exception raised ("none": it returns)
PersonInit(name_raw, last, first, middle, positions, aliases, count) ==
    IF name_raw.some /\ Len(name_raw.v) > 0                    \* if name_raw:
    THEN PersonParsed(parse_raw_name(name_raw.v, count, TRUE), positions,
                      FinalAliases(name_raw, aliases, count), count)
    ELSE PersonFields(last, first, middle, FinalPositions(positions, EmptyCounter, count),
                      FinalAliases(name_raw, aliases, count), count)

\* "if docs_authored:" on None, a set or a list
Truthy(arg) == arg.kind # "none" /\ Len(arg.list) > 0

\* __init__ from "if docs_authored:" on (person.py:101-113); an exception raised
\* before it stays
DocsChecked(made, docs_authored, docs_received) ==
    IF made.err # "none" THEN made
    ELSE IF Truthy(docs_authored) /\ docs_authored.kind # "set"
    THEN [err |-> "ValueError", person |-> NoPerson]
    ELSE IF Truthy(docs_received) /\ docs_received.kind # "set"
    THEN [err |-> "ValueError", person |-> NoPerson]
    ELSE made

\* Person.stemmed
stemmed(p) == p.last \o <<" ">> \o p.first \o <<" ">> \o p.middle

\* the string that Person.__hash__ hashes
HashedString(p) ==
    p.last \o <<" ">> \o p.first \o <<" ">> \o p.middle \o <<" ">> \o CounterStr(p.positions)
    \o <<" ">> \o CounterStr(p.aliases)

\* Person.__eq__: hash(self) == hash(other); two different strings are taken to
\* hash differently
PersonEq(p, q) == HashedString(p) = HashedString(q)

\* the printable ASCII characters in the order of their code points (the grave
\* accent, which no name of the model holds, left out)
CodePoints ==
    << " ", "!", "\"", "#", "$", "%", "&", "'", "(", ")", "*", "+", ",", "-", ".", "/",
       "0", "1", "2", "3", "4", "5", "6", "7", "8", "9", ":", ";", "<", "=", ">", "?",
       "@", "A", "B", "C", "D", "E", "F", "G", "H", "I", "J", "K", "L", "M", "N", "O",
       "P", "Q", "R", "S", "T", "U", "V", "W", "X", "Y", "Z", "[", "\\", "]", "^", "_",
       "a", "b", "c", "d", "e", "f", "g", "h", "i", "j", "k", "l", "m", "n", "o",
       "p", "q", "r", "s", "t", "u", "v", "w", "x", "y", "z", "{", "|", "}", "~" >>

\* str < str: the first differing character decides, by code point; a proper
\* prefix is smaller
RECURSIVE StrLess(_, _)
StrLess(s, t) ==
    IF Len(t) = 0 THEN FALSE
    ELSE IF Len(s) = 0 THEN TRUE
    ELSE IF s[1] = t[1] THEN StrLess(Tail(s), Tail(t))
    ELSE IndexIn(s[1], CodePoints) < IndexIn(t[1], CodePoints)

\* Person.__lt__
PersonLt(p, q) == StrLess(stemmed(p), stemmed(q))

NoPositions == <<"n","o"," ","p","o","s","i","t","i","o","n","s"," ","a","v","a","i","l","a","b","l","e">>

\* the first loop without its test of the weight
RECURSIVE OfficialAnyWeight(_)
OfficialAnyWeight(common) ==
    IF Len(common) = 0 THEN <<>>
    ELSE IF InOrgDict(common[1][1]) /\ OrgDictGet(common[1][1]) # SKIP
    THEN OrgDictGet(common[1][1])
    ELSE OfficialAnyWeight(Tail(common))

\* the first loop of most_likely_position (person.py:209-224), official_org = True:
\* <<>> stands for "the loop ended without a return"
RECURSIVE OfficialPosition(_)
OfficialPosition(common) ==
    IF Len(common) = 0 THEN <<>>
    ELSE IF common[1][2] = 1 THEN NoPositions
    ELSE IF InOrgDict(common[1][1]) /\ OrgDictGet(common[1][1]) # SKIP
    THEN OrgDictGet(common[1][1])
    ELSE OfficialPosition(Tail(common))

Padding == [i \in 1..44 |-> " "]

\* the second loop (person.py:227-240)
RECURSIVE FallbackPosition(_)
FallbackPosition(common) ==
    IF Len(common) = 0 THEN NoPositions
    ELSE IF InOrgDict(common[1][1]) /\ OrgDictGet(common[1][1]) = SKIP
    THEN FallbackPosition(Tail(common))
    ELSE IF Len(common[1][1]) < 5 THEN FallbackPosition(Tail(common))
    ELSE Padding \o Upper(common[1][1])

\* the first loop's answer if it has one, the second loop's otherwise
FirstOrFallback(official, common) ==
    IF official # <<>> THEN official ELSE FallbackPosition(common)

MostLikelyOf(common) == FirstOrFallback(OfficialPosition(common), common)

\* Person.most_likely_position
most_likely_position(p) == MostLikelyOf(MostCommon(p.positions))

(***************************************************************************)
(* mergeInto(target, source): the additive merge of two records.  The code *)
(* that merges lies outside person.py; this is the operation as the        *)
(* specification gives it, built on the Counter update of person.py.       *)
(***************************************************************************)
MergeInto(target, source) ==
    [target EXCEPT !.positions = CounterAddAll(@, source.positions),
                   !.aliases = CounterAddAll(@, source.aliases),
                   !.count = @ + source.count]

(***************************************************************************)
(* DjangoPerson and match_djangoperson_from_name (models.py:16-59,         *)
(* 155-201)                                                                *)
(***************************************************************************)
\* the escapes of json.dumps inside a string
RECURSIVE JsonEscape(_)
JsonEscape(s) ==
    IF Len(s) = 0 THEN <<>>
    ELSE (IF s[1] = "\"" THEN <<"\\", "\"">>
          ELSE IF s[1] = "\\" THEN <<"\\", "\\">>
          ELSE <<s[1]>>) \o JsonEscape(Tail(s))

RECURSIVE JsonItems(_)
JsonItems(items) ==
    IF Len(items) = 0 THEN <<>>
    ELSE <<"\"">> \o JsonEscape(items[1][1]) \o <<"\"", ":", " ">> \o DecStr(items[1][2])
         \o (IF Len(items) > 1 THEN <<",", " ">> ELSE <<>>) \o JsonItems(Tail(items))

\* json.dumps(counter): the items in the dict's order
JsonDumps(c) == <<"{">> \o JsonItems(c) \o <<"}">>

\* the DjangoPerson row built from a Person (models.py:184-194)
DjangoPerson(p) ==
    [last |-> p.last, first |-> p.first, middle |-> p.middle,
     full_name |-> p.first \o <<" ">> \o p.middle \o <<" ">> \o p.last,
     most_likely_org |-> most_likely_position(p),
     positions |-> JsonDumps(p.positions),
     aliases |-> JsonDumps(p.aliases),
     count |-> p.count]

\* the mutant of UniqueViolation: full_name is not declared unique
UniqueNotEnforced(rows, row) == FALSE

\* full_name = CharField(unique=True): an insert of a second row with the same
\* full_name fails (models.py:36)
UniqueViolation(rows, row) == \E i \in DOMAIN rows : rows[i].full_name = row.full_name

\* objects.filter(aliases__contains=name_with_quotes): the primary keys of the rows
\* whose aliases text contains the quoted name (models.py:176-178)
Matching(rows, parsed_name) ==
    {i \in DOMAIN rows : Contains(rows[i].aliases, <<"\"">> \o parsed_name)}

\* the mutant of FirstOf: the last row is taken
LastOf(keys) == Max(keys)

\* queryset[0]: the row that comes first, the rows being read in primary-key order
FirstOf(keys) == Min(keys)

(***************************************************************************)
(* The resolver: calls of match_djangoperson_from_name on one table.  The  *)
(* calls are numbered in the order in which they begin; a call that begins *)
(* before another has returned runs concurrently with it.  Each importing  *)
(* process has at most one call under way.                                 *)
(***************************************************************************)
NumCalls == 4
Calls == 1..NumCalls

\* the processes that run the import; each runs its calls one after the other
\* (the for loops of models.py:155-164)
Importers == {"p", "q"}

\* the calls that have begun and not yet returned or raised
InFlight == {c \in Calls : pc[c] \in {"get", "create", "first"}}

\* the raw names the import hands to the resolver
RawAliases ==
    { <<"K","W">>, <<"k","w">>, <<"K","W","K">>, <<"W","\"","K","W">>, <<"K">> }

ResolverIdle ==
    /\ store = <<>>
    /\ pc = [c \in Calls |-> "idle"]
    /\ alias = [c \in Calls |-> <<>>]
    /\ found = [c \in Calls |-> "unknown"]
    /\ result = [c \in Calls |-> 0]
    /\ err = [c \in Calls |-> "none"]
    /\ seen = [c \in Calls |-> 0]

\* matched_person = match_djangoperson_from_name(name.upper())  (models.py:157, 163)
Call(c) ==
    /\ pc[c] = "idle"
    /\ IF c = 1 THEN TRUE ELSE pc[c - 1] # "idle"
    /\ Cardinality(InFlight) < Cardinality(Importers)
    /\ \E name \in RawAliases : alias' = [alias EXCEPT ![c] = Upper(name)]
    /\ pc' = [pc EXCEPT ![c] = "get"]
    /\ UNCHANGED <<store, found, result, err, seen>>

\* a lookup that counts the match: the one row found is saved with its count
\* raised by one
GetCounting(c) ==
    /\ pc[c] = "get"
    /\ LET keys == Matching(store, alias[c])
       IN /\ found' = [found EXCEPT ![c] = IF keys = {} THEN "none"
                                           ELSE IF Cardinality(keys) = 1 THEN "one"
                                           ELSE "many"]
          /\ result' = [result EXCEPT ![c] = IF Cardinality(keys) = 1
                                             THEN CHOOSE k \in keys : TRUE ELSE 0]
          /\ pc' = [pc EXCEPT ![c] = IF keys = {} THEN "create"
                                     ELSE IF Cardinality(keys) = 1 THEN "done"
                                     ELSE "first"]
          /\ store' = IF Cardinality(keys) = 1
                      THEN [store EXCEPT ![CHOOSE k \in keys : TRUE].count = @ + 1]
                      ELSE store
    /\ seen' = [seen EXCEPT ![c] = Len(store)]
    /\ UNCHANGED <<alias, err>>

\* person = DjangoPerson.objects.get(aliases__contains=name_with_quotes)  (models.py:178)
Get(c) ==
    /\ pc[c] = "get"
    /\ LET keys == Matching(store, alias[c])
       IN /\ found' = [found EXCEPT ![c] = IF keys = {} THEN "none"
                                           ELSE IF Cardinality(keys) = 1 THEN "one"
                                           ELSE "many"]
          /\ result' = [result EXCEPT ![c] = IF Cardinality(keys) = 1
                                             THEN CHOOSE k \in keys : TRUE ELSE 0]
          /\ pc' = [pc EXCEPT ![c] = IF keys = {} THEN "create"
                                     ELSE IF Cardinality(keys) = 1 THEN "done"
                                     ELSE "first"]
    /\ seen' = [seen EXCEPT ![c] = Len(store)]
    /\ UNCHANGED <<store, alias, err>>

\* the exception that ends the except-DoesNotExist branch ("none": the row is saved)
CreateFailure(rows, made) ==
    IF made.err # "none" THEN made.err
    ELSE IF UniqueViolation(rows, DjangoPerson(made.person)) THEN "IntegrityError"
    ELSE "none"

\* except DoesNotExist: Person(name_raw=parsed_name), DjangoPerson(...), person.save()
\* (models.py:182-195)
Create(c) ==
    /\ pc[c] = "create"
    /\ \E made \in {PersonInit(Some(alias[c]), <<>>, <<>>, <<>>, NoArg, NoArg, 1)} :
         \E failure \in {CreateFailure(store, made)} :
            /\ err' = [err EXCEPT ![c] = failure]
            /\ pc' = [pc EXCEPT ![c] = IF failure = "none" THEN "done" ELSE "raised"]
            /\ store' = IF failure = "none" THEN Append(store, DjangoPerson(made.person))
                        ELSE store
            /\ result' = [result EXCEPT ![c] = IF failure = "none" THEN Len(store) + 1 ELSE 0]
    /\ UNCHANGED <<alias, found, seen>>

\* except MultipleObjectsReturned: objects.filter(...)[0]  (models.py:198-200)
First(c) ==
    /\ pc[c] = "first"
    /\ result' = [result EXCEPT ![c] = FirstOf(Matching(store, alias[c]))]
    /\ pc' = [pc EXCEPT ![c] = "done"]
    /\ UNCHANGED <<store, alias, found, err, seen>>

\* match_djangoperson_from_name(parsed_name) run from its first step to its last
\* with no other call in between (models.py:166-201): the table it leaves and the
\* exception that ends it ("none": it returns a row)
Resolved(rows, parsed_name) ==
    IF Matching(rows, parsed_name) # {} THEN [rows |-> rows, err |-> "none"]
    ELSE LET made == PersonInit(Some(parsed_name), <<>>, <<>>, <<>>, NoArg, NoArg, 1)
         IN IF CreateFailure(rows, made) = "none"
            THEN [rows |-> Append(rows, DjangoPerson(made.person)), err |-> "none"]
            ELSE [rows |-> rows, err |-> CreateFailure(rows, made)]

(***************************************************************************)
(* Person objects: construction from a raw name or from explicit fields,   *)
(* and merges.  Each slot keeps, beside the object, the arguments it was   *)
(* constructed from and the number of merges into it.                      *)
(***************************************************************************)
MaxCount == 2
MaxMerges == 1
Slots == {"a", "b"}

RawNames == { <<"T","E","A","G","U","E"," ","C","E"," ","J","R">>, <<"K">>, <<>> }
FieldTriples == { <<<<"A"," ","B">>, <<"C">>, <<>>>>, <<<<"A">>, <<"B"," ","C">>, <<>>>> }
PositionArgs ==
    { NoArg,
      CounterArg(<< <<<<"J","R">>, 1>>, <<<<"X">>, 1>> >>),
      CounterArg(<< <<<<"X">>, 1>>, <<<<"J","R">>, 1>> >>),
      ListArg(<<<<"J","r",".">>, <<"x">>>>),
      SetArg(<<<<"x">>>>) }
AliasArgs == { NoArg, CounterArg(EmptyCounter), ListArg(<<<<"z">>>>) }

\* docs_authored, docs_received: None, a set, a list, empty and not
DocsArgs == { NoArg, SetArg(<<>>), SetArg(<<<<"d">>>>), ListArg(<<>>), ListArg(<<<<"d">>>>) }

ConstructArgs ==
    [name_raw : {Some(r) : r \in RawNames}, last : {<<>>}, first : {<<>>}, middle : {<<>>},
     positions : PositionArgs, aliases : AliasArgs, count : 1..MaxCount,
     docs_authored : {NoArg}, docs_received : {NoArg}]
    \cup
    {[name_raw |-> None, last |-> f[1], first |-> f[2], middle |-> f[3],
      positions |-> p, aliases |-> a, count |-> n,
      docs_authored |-> NoArg, docs_received |-> NoArg] :
        f \in FieldTriples, p \in PositionArgs, a \in AliasArgs, n \in 1..MaxCount}
    \cup
    {[name_raw |-> None, last |-> <<"D">>, first |-> <<>>, middle |-> <<>>,
      positions |-> NoArg, aliases |-> NoArg, count |-> 1,
      docs_authored |-> d[1], docs_received |-> d[2]] :
        d \in (DocsArgs \X {NoArg}) \cup ({NoArg} \X DocsArgs)}

NoArgs ==
    [name_raw |-> None, last |-> <<>>, first |-> <<>>, middle |-> <<>>,
     positions |-> NoArg, aliases |-> NoArg, count |-> 0,
     docs_authored |-> NoArg, docs_received |-> NoArg]

EmptySlot == [person |-> NoPerson, args |-> NoArgs, merges |-> 0]

PersonsIdle ==
    /\ people = [s \in Slots |-> EmptySlot]
    /\ lastOp = [op |-> "none", target |-> "", source |-> "", err |-> "none",
                 docs |-> <<NoArg, NoArg>>]

\* Person(name_raw=, last=, first=, middle=, positions=, aliases=, count=,
\* docs_authored=, docs_received=)
Construct(s) ==
    /\ ~people[s].person.exists
    /\ \E a \in ConstructArgs :
         \E made \in {DocsChecked(PersonInit(a.name_raw, a.last, a.first, a.middle,
                                             a.positions, a.aliases, a.count),
                                  a.docs_authored, a.docs_received)} :
            /\ people' = IF made.err = "none"
                         THEN [people EXCEPT ![s] = [person |-> made.person, args |-> a,
                                                     merges |-> 0]]
                         ELSE people
            /\ lastOp' = [op |-> "construct", target |-> s, source |-> "", err |-> made.err,
                          docs |-> <<a.docs_authored, a.docs_received>>]

\* mergeInto(people[t], people[s])
Merge(t, s) ==
    /\ t # s
    /\ people[t].person.exists /\ people[s].person.exists
    /\ people[t].merges < MaxMerges
    /\ people' = [people EXCEPT ![t].person = MergeInto(@, people[s].person),
                                ![t].merges = @ + 1]
    /\ lastOp' = [op |-> "merge", target |-> t, source |-> s, err |-> "none",
                 docs |-> <<NoArg, NoArg>>]

(***************************************************************************)
(* A parse run: parse_raw_name applied to one raw string.                  *)
(***************************************************************************)
MaxRawLen == 3
ParseChars == {"K", "w", " ", "#", "-", ","}
ParseSamples ==
    { <<"T","E","A","G","U","E"," ","C","E"," ","J","R">>, <<"t","e","a","g","u","e"," ","c","e"," ","j","r">>, <<"T","E","M","K","O"," ","P","M",","," ","P","M">>, <<"T","E","M","K","O"," ","P","M",","," ","U","N","K">>, <<"H","E","N","S","O","N",","," ","A","."," ","(","X",")">>,
      <<"(","X",")">>, <<"K"," ","-"," ","X">>,
      <<"T","E","M","K","O"," ","P","M">>, <<"T","E","M","K","O"," ","S","L",","," ","P","M">>, <<"t","e","m","k","o"," ","s","l",","," ","p","m">>, <<"T","E","M","K","O"," ","S","L",","," ","N","A">>,
      <<"C","h","u","m","n","e","y","-","R","D","-","J","r",","," ","o","e","u","o">>, <<"C","H","U","M","N","E","Y","-","R","D","-","J","R",","," ","O","E","U","O">>, <<"A","b","-","C","-","J","r","-","J","r">> }
ParseInputs == StringsUpTo(ParseChars, MaxRawLen) \cup ParseSamples

NoParse == ParseError("none")

ParseIdle ==
    /\ raw = <<>>
    /\ parsed = NoParse
    /\ ppc = "idle"

\* the caller picks the raw string
Choose ==
    /\ ppc = "idle"
    /\ raw' \in ParseInputs
    /\ ppc' = "chosen"
    /\ UNCHANGED parsed

\* Person.parse_raw_name(raw, 1)
Parse ==
    /\ ppc = "chosen"
    /\ parsed' = parse_raw_name(raw, 1, TRUE)
    /\ ppc' = "parsed"
    /\ UNCHANGED raw

(***************************************************************************)
(* A most_likely_position run: the property read on one positions Counter. *)
(***************************************************************************)
MaxWeight == 2
MaxPositions == 2

\* position strings: table keys mapped to a clean name ('PM') and to the sentinel
\* ('UNK'), a clean name, and strings the table does not have, short and long
PositionKeys == { <<"P","M">>, <<"U","N","K">>, <<"P","H","I","L","I","P"," ","M","O","R","R","I","S">>, <<"J","R">>, <<"L","a","w","y","e","r">> }

\* the Counters with at most n keys, the keys in every insertion order
RECURSIVE TalliesUpTo(_)
TalliesUpTo(n) ==
    IF n = 0 THEN {EmptyCounter}
    ELSE TalliesUpTo(n - 1) \cup
         {Append(c, <<k, w>>) : c \in {d \in TalliesUpTo(n - 1) : Len(d) = n - 1},
                                k \in PositionKeys, w \in 1..MaxWeight}

Tallies == {c \in TalliesUpTo(MaxPositions) : Cardinality(CounterKeys(c)) = Len(c)}

PositionIdle ==
    /\ tally = EmptyCounter
    /\ likely = <<>>
    /\ mpc = "idle"

\* a Person with these positions
Tally ==
    /\ mpc = "idle"
    /\ tally' \in Tallies
    /\ mpc' = "chosen"
    /\ UNCHANGED likely

\* person.most_likely_position
Likely ==
    /\ mpc = "chosen"
    /\ likely' = MostLikelyOf(MostCommon(tally))
    /\ mpc' = "done"
    /\ UNCHANGED tally

(***************************************************************************)
(* Specifications                                                          *)
(***************************************************************************)
Init == ResolverIdle /\ PersonsIdle /\ ParseIdle /\ PositionIdle

Next ==
    \E c \in Calls :
        \/ Call(c) /\ UNCHANGED <<personVars, parseVars, positionVars>>
        \/ Get(c) /\ UNCHANGED <<personVars, parseVars, positionVars>>
        \/ Create(c) /\ UNCHANGED <<personVars, parseVars, positionVars>>
        \/ First(c) /\ UNCHANGED <<personVars, parseVars, positionVars>>

\* the resolver
Spec == Init /\ [][Next]_vars

NextPerson ==
    \/ \E s \in Slots : Construct(s) /\ UNCHANGED <<resolverVars, parseVars, positionVars>>
    \/ \E t, s \in Slots : Merge(t, s) /\ UNCHANGED <<resolverVars, parseVars, positionVars>>

\* Person objects
SpecPerson == Init /\ [][NextPerson]_vars

NextParse ==
    \/ Choose /\ UNCHANGED <<resolverVars, personVars, positionVars>>
    \/ Parse /\ UNCHANGED <<resolverVars, personVars, positionVars>>

\* parse runs
SpecParse == Init /\ [][NextParse]_vars

NextPosition ==
    \/ Tally /\ UNCHANGED <<resolverVars, personVars, parseVars>>
    \/ Likely /\ UNCHANGED <<resolverVars, personVars, parseVars>>

\* most_likely_position runs
SpecPosition == Init /\ [][NextPosition]_vars

(***************************************************************************)
(* Properties of the resolver                                              *)
(***************************************************************************)
\* the call took the except-DoesNotExist branch and its save() succeeded
Created(c) == found[c] = "none" /\ pc[c] = "done"

\* the alias that the row with primary key k was created from
\* (aliases=json.dumps(person_original.aliases), models.py:193)
RowAlias(k) == alias[CHOOSE c \in Calls : Created(c) /\ result[c] = k]

\* C1: at most one record is ever created per distinct alias: of the calls that
\* resolve the same upper-cased alias, however they interleave, at most one inserts
\* a row, and no two rows of the table hold the same aliases
C1_AtMostOneCreation ==
    /\ \A c, d \in Calls : (Created(c) /\ Created(d) /\ alias[c] = alias[d]) => c = d
    /\ \A i, j \in DOMAIN store : store[i].aliases = store[j].aliases => i = j

\* two calls for the same alias both found no row; one inserted, the other's insert
\* was rejected
C1_Witness ==
    \E c, d \in Calls :
        /\ c # d /\ alias[c] = alias[d]
        /\ found[c] = "none" /\ found[d] = "none"
        /\ pc[c] = "done" /\ pc[d] = "raised" /\ err[d] = "IntegrityError"

\* C2: a call that finds zero matching rows completes without an error, and the
\* table then holds the one row made from its alias
C2_ZeroMatchCreates ==
    \A c \in Calls :
        (found[c] = "none" /\ pc[c] \in {"done", "raised"}) =>
            /\ pc[c] = "done" /\ err[c] = "none"
            /\ result[c] \in DOMAIN store
            /\ store[result[c]].aliases = JsonDumps(<<<<alias[c], 1>>>>)

\* C3: the lookup is anchored at the start of an alias: a call returns an existing
\* row only if the row's alias begins with the upper-cased query, and a row whose
\* alias begins with the query is matched
C3_PrefixAnchored ==
    \A c \in Calls :
        /\ (pc[c] = "done" /\ found[c] \in {"one", "many"}) =>
               StartsWith(RowAlias(result[c]), alias[c])
        /\ found[c] = "none" =>
               \A k \in 1..seen[c] : ~StartsWith(RowAlias(k), alias[c])

C5_ParseTotal == ppc = "parsed" => parsed.err = "none"

(***************************************************************************)
(* Properties of Person objects                                            *)
(***************************************************************************)
Exists(s) == people[s].person.exists

\* the same name fields and the same contents of both multisets
SameContents(p, q) ==
    /\ p.last = q.last /\ p.first = q.first /\ p.middle = q.middle
    /\ CounterEq(p.positions, q.positions)
    /\ CounterEq(p.aliases, q.aliases)

\* C6: equality and hashing do not depend on insertion order: two records with the
\* same name fields and the same contents of positions and aliases, in whatever
\* order the keys were added, compare equal (their hashes are equal)
C6_OrderIndependent ==
    \A s, t \in Slots :
        (Exists(s) /\ Exists(t) /\ SameContents(people[s].person, people[t].person))
            => PersonEq(people[s].person, people[t].person)

\* C7: equality is exactly structural: two records that compare equal have pairwise
\* equal last, first and middle and equal contents of both multisets, so two records
\* that differ in a name field or in a multiset compare unequal
C7_EqualOnlyIfSame ==
    \A s, t \in Slots :
        (Exists(s) /\ Exists(t) /\ PersonEq(people[s].person, people[t].person))
            => SameContents(people[s].person, people[t].person)

\* C8 as stated: every existing record has a non-empty aliases multiset
C8_AliasesNeverEmpty ==
    \A s \in Slots : Exists(s) => CounterContents(people[s].person.aliases) # {}

\* C8, amended: a record constructed with a raw string and without an aliases
\* argument holds the upper-cased raw string as an alias, with a weight of at least
\* count, after construction and after every merge; a record constructed from
\* explicit fields without an aliases argument has no alias until a merge adds one
C8_AliasesFromRawName ==
    \A s \in Slots :
        Exists(s) /\ people[s].args.aliases.kind = "none" =>
            /\ people[s].args.name_raw.some =>
                 /\ CounterContents(people[s].person.aliases) # {}
                 /\ CounterGet(people[s].person.aliases, Upper(people[s].args.name_raw.v))
                        >= people[s].args.count
            /\ (~people[s].args.name_raw.some /\ people[s].merges = 0) =>
                 people[s].person.aliases = EmptyCounter

\* a record made from a raw name has been merged into, next to a record made from
\* explicit fields that has no alias
C8_Witness ==
    \E s, t \in Slots :
        /\ Exists(s) /\ people[s].args.aliases.kind = "none"
        /\ people[s].args.name_raw.some /\ Len(people[s].args.name_raw.v) > 0
        /\ people[s].merges > 0
        /\ Exists(t) /\ people[t].args.aliases.kind = "none"
        /\ ~people[t].args.name_raw.some
        /\ people[t].person.aliases = EmptyCounter

\* the weights of after are those of before plus those of added, key by key
WeightsAdded(before, added, after) ==
    \A k \in CounterKeys(before) \cup CounterKeys(added) \cup CounterKeys(after) :
        CounterGet(after, k) = CounterGet(before, k) + CounterGet(added, k)

\* no weight of before is larger than in after
WeightsGrow(before, after) ==
    \A k \in CounterKeys(before) : CounterGet(after, k) >= CounterGet(before, k)

ExplicitPositions(a) ==
    IF a.positions.kind = "counter" THEN a.positions.items
    ELSE PositionsFromList(a.positions.list, a.count)

\* C10: a record constructed from a raw string and an explicit positions argument,
\* of whatever container kind, has the weighted sum of the explicit positions and
\* the positions parsed from the raw string
C10_PositionsSummed ==
    \A s \in Slots :
        ( /\ Exists(s) /\ people[s].merges = 0
          /\ people[s].args.name_raw.some /\ Len(people[s].args.name_raw.v) > 0
          /\ people[s].args.positions.kind # "none" ) =>
            CounterEq(people[s].person.positions,
                      CounterAddAll(ExplicitPositions(people[s].args),
                                    parse_raw_name(people[s].args.name_raw.v,
                                                   people[s].args.count, TRUE).positions))

(***************************************************************************)
(* Properties of the organisation search                                   *)
(***************************************************************************)
\* what extract_raw_org_names_from_name returns when parse_raw_name calls it for s
\* (person.py:331-333)
ExtractedOf(s) == extract_raw_org_names_from_name(ParsePre(s).name)

\* C11: the skip sentinel is never a position: neither the position list that the
\* organisation search returns nor the positions multiset of the parse holds the
\* sentinel, whatever the length of the raw spelling mapped to it
C11_NoSkipSentinel ==
    ppc = "parsed" /\ parsed.err = "none" =>
        /\ \A i \in DOMAIN ExtractedOf(raw).positions : ExtractedOf(raw).positions[i] # SKIP
        /\ SKIP \notin CounterKeys(parsed.positions)
        /\ Upper(SKIP) \notin CounterKeys(parsed.positions)

\* the entries of the table with a two-letter raw spelling
TwoLetterEntries ==
    {i \in DOMAIN RAW_ORG_TO_CLEAN_ORG_DICT : Len(RAW_ORG_TO_CLEAN_ORG_DICT[i][1]) = 2}

\* s with its last whole-word match of raw_org cut out, k times over
RECURSIVE RemovedLast(_, _, _)
RemovedLast(s, raw_org, k) ==
    IF k = 0 THEN s
    ELSE CutOut(RemovedLast(s, raw_org, k - 1), raw_org,
                LastHit(RemovedLast(s, raw_org, k - 1), raw_org, 1, 0))

\* a non-empty last name and a non-empty first or middle name
HasName(name) == name.last # <<>> /\ (name.first # <<>> \/ name.middle # <<>>)

\* what the search loop for a two-letter entry returns for s: with n the number of
\* positions returned, the name is s with its last n matches removed
TwoLetterResult(s, raw_org, clean_org, r) ==
    /\ r.err = "none"
    /\ \A j \in DOMAIN r.positions : r.positions[j] = clean_org
    /\ r.name = RemovedLast(s, raw_org, Len(r.positions))
    /\ \A k \in 1..Len(r.positions) : HasName(HumanName(RemovedLast(s, raw_org, k)))
    /\ LastHit(r.name, raw_org, 1, 0) # 0 =>
           ~HasName(HumanName(RemovedLast(s, raw_org, Len(r.positions) + 1)))

\* C12: a whole-word match of a two-letter raw spelling is removed, and its clean
\* name recorded, iff the string without the match splits into a non-empty last and
\* a non-empty first or middle name; otherwise the string and the positions stay as
\* they are and no further match of that spelling is tried
C12_TwoLetterOrg ==
    ppc = "parsed" =>
        \A i \in TwoLetterEntries :
            TwoLetterResult(raw, RAW_ORG_TO_CLEAN_ORG_DICT[i][1],
                            RAW_ORG_TO_CLEAN_ORG_DICT[i][2],
                            ExtractOrg(raw, <<>>, RAW_ORG_TO_CLEAN_ORG_DICT[i][1],
                                       RAW_ORG_TO_CLEAN_ORG_DICT[i][2]))

\* 'TEMKO PM, PM' was parsed: the trailing PM was removed and recorded, the PM that
\* is left was kept because 'TEMKO' alone has no last name
C12_Witness ==
    /\ ppc = "parsed" /\ raw = <<"T","E","M","K","O"," ","P","M",","," ","P","M">>
    /\ ExtractedOf(raw).name = <<"T","E","M","K","O"," ","P","M">>
    /\ ExtractedOf(raw).positions = <<<<"P","h","i","l","i","p"," ","M","o","r","r","i","s">>>>
    /\ CounterKeys(parsed.positions) = {<<"P","H","I","L","I","P"," ","M","O","R","R","I","S">>}
    /\ ExtractOrg(<<"T","E","M","K","O"," ","P","M">>, <<>>, <<"P","M">>, <<"P","h","i","l","i","p"," ","M","o","r","r","i","s">>) =
           [err |-> "none", name |-> <<"T","E","M","K","O"," ","P","M">>, positions |-> <<>>]

\* the highest weight of a Counter, 0 for the empty one
TopWeight(c) == IF c = EmptyCounter THEN 0 ELSE MostCommon(c)[1][2]

\* C13: most_likely_position returns 'no positions available' whenever the
\* highest weight among the positions is exactly 1, however many positions
\* there are and whether or not they are keys of the table.
C13_SingleMentionsDoNotCount ==
    mpc = "done" /\ TopWeight(tally) = 1 => likely = NoPositions

C13_Witness ==
    /\ mpc = "done"
    /\ tally = <<<<<<"P","M">>, 1>>, <<<<"L","a","w","y","e","r">>, 1>>>>
    /\ likely = NoPositions

\* a key of the table whose clean name is not the sentinel
IsOfficial(position) == InOrgDict(position) /\ OrgDictGet(position) # SKIP

\* may be shown as it is: not mapped to the sentinel, five characters or more
Qualifies(position) ==
    /\ ~(InOrgDict(position) /\ OrgDictGet(position) = SKIP)
    /\ Len(position) >= 5

\* the first entry, in descending order of weight, that qualifies
FirstQualifying(common) ==
    common[CHOOSE i \in DOMAIN common :
               /\ Qualifies(common[i][1])
               /\ \A j \in 1..(i - 1) : ~Qualifies(common[j][1])][1]

\* C14: when the highest weight is above 1 and no position is a key of the
\* table mapped to a clean name, the result is exactly the upper-cased first
\* position, in descending order of weight, that is not mapped to the sentinel
\* and has five characters or more, whatever the weights of the positions
\* below the first; only when no position qualifies is it 'no positions
\* available'.
C14_Fallback ==
    (/\ mpc = "done"
     /\ TopWeight(tally) > 1
     /\ \A k \in CounterKeys(tally) : ~IsOfficial(k))
    => likely = (IF \E k \in CounterKeys(tally) : Qualifies(k)
                 THEN Upper(FirstQualifying(MostCommon(tally)))
                 ELSE NoPositions)

\* C15: records are totally ordered by their stemmed key: a < b is irreflexive and
\* transitive, and of two records that compare unequal exactly one is smaller
\* than the other
C15_TotalOrder ==
    \A s, t, u \in Slots :
        (Exists(s) /\ Exists(t) /\ Exists(u)) =>
            /\ ~PersonLt(people[s].person, people[s].person)
            /\ (PersonLt(people[s].person, people[t].person)
                /\ PersonLt(people[t].person, people[u].person))
               => PersonLt(people[s].person, people[u].person)
            /\ ~PersonEq(people[s].person, people[t].person)
               => (PersonLt(people[s].person, people[t].person)
                   # PersonLt(people[t].person, people[s].person))

\* a value given for a document collection that is not a set
NotASet(arg) == arg.kind \notin {"none", "set"}

\* C17: a container that is not a set, given for the authored or the received
\* documents, always makes the constructor raise ValueError, whether it is empty
\* or not; a set never does
C17_NonSetRaises ==
    lastOp.op = "construct" =>
        (lastOp.err = "ValueError" <=> (NotASet(lastOp.docs[1]) \/ NotASet(lastOp.docs[2])))

\* the parses of s and t give records with the same name fields and positions
SameRecord(p, q) ==
    /\ p.err = q.err
    /\ Upper(p.last) = Upper(q.last)
    /\ Upper(p.first) = Upper(q.first)
    /\ Upper(p.middle) = Upper(q.middle)
    /\ CounterEq(p.positions, q.positions)

\* C16: the record parsed from a raw string does not depend on the letter case of
\* the string: the raw string and its upper-cased variant give the same last,
\* first, middle, positions and aliases
C16_CaseIndependent ==
    ppc = "parsed" =>
        /\ SameRecord(parsed, parse_raw_name(Upper(raw), 1, TRUE))
        /\ CounterEq(DefaultAliases(Some(raw), 1), DefaultAliases(Some(Upper(raw)), 1))

\* where group(1) of the match starts: after the dash and one or two upper-case
\* letters that follow the capitalised word
JrGroupStart(s) ==
    LET d == LowerRunEnd(s, 2) + 1
    IN IF d + 2 <= Len(s) /\ IsUpper(s[d + 2]) /\ JrGroupAt(s, d + 3) # <<>>
       THEN d + 3
       ELSE d + 2

\* s without the one occurrence of its matched group
WithoutMatchedGroup(s) ==
    Upto(s, JrGroupStart(s) - 1) \o From(s, JrGroupStart(s) + Len(JrMatchGroup(s)))

\* C18: remove_jr_sr_iii deletes only the matched suffix group: when the string
\* starts with a capitalised word, a dash, one or two upper-case letters and
\* -Jr, -Sr or -III, the result is the string without that one occurrence, every
\* other character kept in order, a later occurrence of the same text included;
\* when the pattern does not match at the start the string is returned unchanged
C18_OnlyMatchedGroupRemoved ==
    ppc = "parsed" =>
        remove_jr_sr_iii(raw) = (IF JrMatchGroup(raw) # <<>> THEN WithoutMatchedGroup(raw)
                                 ELSE raw)

\* raw spellings a lookup table may hold: those of the table and one of length 1
RawSpellings ==
    {RAW_ORG_TO_CLEAN_ORG_DICT[i][1] : i \in DOMAIN RAW_ORG_TO_CLEAN_ORG_DICT} \cup {<<"K">>}

\* C19: the table-driven extraction terminates for every raw string and every
\* table: the search loop for one raw spelling, of whatever length (1 included),
\* either cuts the match out or exits, and so does the whole parse
C19_ExtractionTerminates ==
    ppc = "parsed" =>
        /\ parsed.err # "NoTermination"
        /\ \A raw_org \in RawSpellings :
             ExtractOrg(ParsePre(raw).name, <<>>, raw_org, <<"K","a","y">>).err # "NoTermination"

\* call d looked the alias up when the row that call c returned was in the table,
\* and no other call added a row between c's lookup and c's insert
ResolvedAfter(c, d) ==
    /\ c # d
    /\ pc[c] = "done"
    /\ found[d] # "unknown"
    /\ seen[d] >= result[c]
    /\ Created(c) => seen[c] = result[c] - 1

\* C20: sequential resolution is idempotent: once a call for an alias has returned
\* a row, every later call for the same alias finds a row, creates none and returns
\* the same row; in particular the row created for an alias is found again by the
\* quoted-prefix lookup for that alias
C20_Idempotent ==
    \A c, d \in Calls :
        (ResolvedAfter(c, d) /\ alias[d] = alias[c]) =>
            /\ found[d] # "none"
            /\ pc[d] = "done" => result[d] = result[c]

\* the aliases that one call resolves without an error from this table
ResolvableAlone(rows) == {a \in {Upper(n) : n \in RawAliases} : Resolved(rows, a).err = "none"}

\* the second of two calls run one after the other
ResolvedBoth(rows, a, b) == Resolved(Resolved(rows, a).rows, b)

\* C21: the outcome of resolving a batch of aliases does not depend on their
\* order: from the same table, resolving a then b and resolving b then a complete
\* without an error, create the same number of rows and leave the same rows, for
\* any two aliases, one being a prefix of the other included
C21_BatchOrderIndependent ==
    InFlight = {} =>
        \A a, b \in ResolvableAlone(store) :
            /\ ResolvedBoth(store, a, b).err = "none"
            /\ ResolvedBoth(store, b, a).err = "none"
            /\ Len(ResolvedBoth(store, a, b).rows) = Len(ResolvedBoth(store, b, a).rows)
            /\ Range(ResolvedBoth(store, a, b).rows) = Range(ResolvedBoth(store, b, a).rows)

\* C22: a call that finds one or more matching rows leaves the table as it is: no
\* row is inserted and no field of a row is changed; over any sequence of calls the
\* table never loses a row, no row is ever changed, and the table grows by at most
\* one row per call, the one that a call which found no row inserts
C22_StoreFrame ==
    [][ /\ \A c \in Calls :
             (pc'[c] # pc[c] /\ found'[c] \in {"one", "many"}) => store' = store
        /\ Len(store') >= Len(store)
        /\ SubSeq(store', 1, Len(store)) = store
        /\ Len(store') <= Len(store) + 1
        /\ Len(store') = Len(store) + 1 =>
             \E c \in Calls : /\ pc[c] = "create" /\ pc'[c] = "done" /\ found[c] = "none"
                              /\ \A d \in Calls \ {c} : pc'[d] = pc[d]
      ]_vars

\* a call created a row; later calls found it alone and, after a longer alias was
\* stored, among several; the table holds the rows as they were created
C22_Witness ==
    \E c, d, e \in Calls :
        /\ Created(c) /\ Created(e) /\ c # e
        /\ found[d] = "many" /\ pc[d] = "done" /\ result[d] = result[c]
        /\ Len(store) = 2
        /\ store[result[c]].aliases = JsonDumps(<<<<alias[c], 1>>>>)
        /\ store[result[c]].count = 1

\* the positions that parse_raw_name gave the constructor (none without a raw name)
ParsedPositions(a) ==
    IF a.name_raw.some /\ Len(a.name_raw.v) > 0
    THEN parse_raw_name(a.name_raw.v, a.count, TRUE).positions
    ELSE EmptyCounter

\* C23: constructing a record does not modify the caller's arguments: after a
\* record was built from a raw string and a positions multiset supplied by the
\* caller, the caller's multiset holds the same contents as before the call
C23_ArgumentsUntouched ==
    \A s \in Slots :
        (Exists(s) /\ people[s].args.positions.kind # "none") =>
            /\ CounterEq(PositionsArgAfter(people[s].args.positions,
                                           ParsedPositions(people[s].args)).items,
                         people[s].args.positions.items)
            /\ PositionsArgAfter(people[s].args.positions,
                                 ParsedPositions(people[s].args)).list
                   = people[s].args.positions.list

====
